---------------------------- MODULE Spec2Model ----------------------------
(***************************************************************************)
(* Model of the GitLab provider of nbviewer:                                *)
(*   nbviewer/providers/gitlab/client.py    (AsyncGitLabClient)             *)
(*   nbviewer/providers/gitlab/handlers.py  (request handlers, rewrites)    *)
(*                                                                         *)
(* Strings are sequences of one-character strings, so that prefix, suffix, *)
(* regular-expression matching and formatting are computed character by    *)
(* character as the Python code computes them.                             *)
(***************************************************************************)
EXTENDS Integers, Sequences, FiniteSets, TLC

VARIABLES
    gitlab_url,     \* os.environ['GITLAB_URL'], read by the client and by uri_rewrites
    token,          \* os.environ['GITLAB_API_TOKEN']
    uri_in,         \* rewrite: the parts the pasted upstream URI was built from
    uri,            \* rewrite: the pasted URI handed to transform_ipynb_uri
    new,            \* rewrite: what transform_ipynb_uri returned
    rw_done,        \* rewrite: transform_ipynb_uri has returned
    lk_path,        \* lookup: the path handed to _extract_tree_entry
    tree_response,  \* lookup: the response of the tree listing handed to it
    lk_result,      \* lookup: what _extract_tree_entry returned or raised
    lk_done,        \* lookup: _extract_tree_entry has ended
    contents,       \* classifier: the directory listing (json.loads of the contents response)
    entries,        \* classifier: the entries handed to the tree template
    cl_done,        \* classifier: the loop over contents has ended
    wire,           \* client: the requests handed to self.client.fetch (the HTTP client)
    last,           \* client: the last call of a client method and how it ended
    req             \* handlers: per connection, the request being handled

rwVars == <<uri_in, uri, new, rw_done>>
lkVars == <<lk_path, tree_response, lk_result, lk_done>>
clVars == <<contents, entries, cl_done>>
ccVars == <<wire, last>>
pureVars == <<uri_in, uri, new, rw_done, lk_path, tree_response, lk_result, lk_done,
              contents, entries, cl_done, wire, last>>
cfgVars == <<gitlab_url, token>>

vars == <<gitlab_url, token, uri_in, uri, new, rw_done,
          lk_path, tree_response, lk_result, lk_done, contents, entries, cl_done,
          wire, last, req>>

(***************************************************************************)
(* String helpers (Python str methods)                                     *)
(***************************************************************************)
startswith(s, p) == Len(p) <= Len(s) /\ SubSeq(s, 1, Len(p)) = p

endswith(s, p) == Len(p) <= Len(s) /\ SubSeq(s, Len(s) - Len(p) + 1, Len(s)) = p

\* All sequences over alphabet A of length at most n
SeqsUpTo(A, n) == UNION {[1..k -> A] : k \in 0..n}

\* utils.quote: percent-encoding of the UTF-8 bytes of the characters
\* outside the safe set
QuoteChar(c) ==
    IF c = " " THEN <<"%","2","0">>
    ELSE IF c = "U+0159" THEN <<"%","C","5","%","9","9">>
    ELSE <<c>>

RECURSIVE quote(_)
quote(s) == IF s = <<>> THEN <<>> ELSE QuoteChar(Head(s)) \o quote(Tail(s))

\* Literals of the source
S_slash  == <<"/">>
S_blob   == <<"b","l","o","b">>
S_tree   == <<"t","r","e","e">>
S_raw    == <<"r","a","w">>
S_gitlab == <<"/","g","i","t","l","a","b","/">>
S_github == <<"/","g","i","t","h","u","b","/">>
S_ipynb == <<".","i","p","y","n","b">>
S_tree_seg == <<"/","t","r","e","e","/">>
S_blob_seg == <<"/","b","l","o","b","/">>
S_https_gitlab_com == <<"h","t","t","p","s",":","/","/","g","i","t","l","a","b",".","c","o","m">>

\* Regular expressions (Python re), as far as the source uses them.
\* A pattern is a sequence of tokens:
\*   [t |-> "lit", c |-> ch]   the character ch (also an escaped one)
\*   [t |-> "any"]             an unescaped dot: any character
\*   [t |-> "seg"]             the group of one or more characters other than /
\*   [t |-> "alt", alts |-> <<s1, s2, ...>>]   the group of alternatives s1|s2|...
\*   [t |-> "rest"]            the group of any characters, dot-star
\*   [t |-> "end"]             $
\* MatchFrom is re.match: anchored at the start, backtracking, greedy
\* groups, alternatives tried left to right; it returns the captured
\* groups of the first match found in that order, or NoMatch.
\* The model's alphabet holds no newline (a URI holds none), so a dot
\* matches every character and $ matches at the end of the string only.
NoMatch == [ok |-> FALSE, groups |-> <<>>]

Matched(gs) == [ok |-> TRUE, groups |-> gs]

Lit(s) == [i \in 1..Len(s) |-> [t |-> "lit", c |-> s[i]]]

RECURSIVE MatchFrom(_, _, _, _)
RECURSIVE TryLens(_, _, _, _, _, _)
RECURSIVE TryAlts(_, _, _, _, _)

\* the length of the longest run of characters other than / starting at s[i]
RECURSIVE RunNoSlash(_, _)
RunNoSlash(s, i) ==
    IF i > Len(s) \/ s[i] = "/" THEN 0 ELSE 1 + RunNoSlash(s, i + 1)

MatchFrom(pat, k, s, i) ==
    IF k > Len(pat) THEN Matched(<<>>)
    ELSE LET tk == pat[k] IN
      CASE tk.t = "lit" ->
             IF i <= Len(s) /\ s[i] = tk.c THEN MatchFrom(pat, k + 1, s, i + 1) ELSE NoMatch
        [] tk.t = "any" ->
             IF i <= Len(s) THEN MatchFrom(pat, k + 1, s, i + 1) ELSE NoMatch
        [] tk.t = "end" ->
             IF i = Len(s) + 1 THEN MatchFrom(pat, k + 1, s, i) ELSE NoMatch
        [] tk.t = "seg" -> TryLens(pat, k, s, i, RunNoSlash(s, i), 1)
        [] tk.t = "rest" -> TryLens(pat, k, s, i, Len(s) - i + 1, 0)
        [] tk.t = "alt" -> TryAlts(pat, k, s, i, 1)

\* a greedy group: try n characters, then n-1, ... down to lo
TryLens(pat, k, s, i, n, lo) ==
    IF n < lo THEN NoMatch
    ELSE LET r == MatchFrom(pat, k + 1, s, i + n) IN
         IF r.ok THEN Matched(<<SubSeq(s, i, i + n - 1)>> \o r.groups)
         ELSE TryLens(pat, k, s, i, n - 1, lo)

TryAlts(pat, k, s, i, a) ==
    IF a > Len(pat[k].alts) THEN NoMatch
    ELSE LET w == pat[k].alts[a]
             r == IF startswith(SubSeq(s, i, Len(s)), w)
                  THEN MatchFrom(pat, k + 1, s, i + Len(w)) ELSE NoMatch
         IN IF r.ok THEN Matched(<<w>> \o r.groups) ELSE TryAlts(pat, k, s, i, a + 1)

re_match(pat, s) == MatchFrom(pat, 1, s, 1)

\* compile the text of the host part of a pattern: \. is the character ".",
\* a bare . is any character, every other character of the host is itself
CompileHost(text) ==
    [i \in 1..Len(text) |->
        IF text[i] = "\\." THEN [t |-> "lit", c |-> "."]
        ELSE IF text[i] = "." THEN [t |-> "any"]
        ELSE [t |-> "lit", c |-> text[i]]]

\* str.replace('.', r'\.'): the two characters \. are kept as one element
replace_dots(s) == [i \in 1..Len(s) |-> IF s[i] = "." THEN "\\." ELSE s[i]]

\* str.format on a template of literal pieces and {n} fields
TLit(s) == [k |-> "lit", s |-> s, n |-> 0]
TArg(n) == [k |-> "arg", s |-> <<>>, n |-> n]

RECURSIVE format(_, _)
format(tmpl, args) ==
    IF tmpl = <<>> THEN <<>>
    ELSE (IF Head(tmpl).k = "arg" THEN args[Head(tmpl).n + 1] ELSE Head(tmpl).s)
         \o format(Tail(tmpl), args)

(***************************************************************************)
(* handlers.py: uri_rewrites, and utils.transform_ipynb_uri that applies   *)
(* the rules                                                               *)
(***************************************************************************)
\* r'/([^\/]+)/([^\/]+)/(blob|tree)/(.' + '*)$'  (handlers.py line 303)
RewriteTail ==
    Lit(S_slash) \o <<[t |-> "seg"]>> \o Lit(S_slash) \o <<[t |-> "seg"]>>
    \o Lit(S_slash) \o <<[t |-> "alt", alts |-> <<S_blob, S_tree>>]>>
    \o Lit(S_slash) \o <<[t |-> "rest"], [t |-> "end"]>>

\* u'/gitlab/{0}/{1}/{2}/{3}'
RewriteTemplate ==
    <<TLit(S_gitlab), TArg(0), TLit(S_slash), TArg(1), TLit(S_slash), TArg(2),
      TLit(S_slash), TArg(3)>>

\* a slip: the internal route written out as blob instead of the captured kind
uri_rewrites_blob_only ==
    << [pattern  |-> CompileHost(replace_dots(gitlab_url)) \o RewriteTail,
        template |-> <<TLit(S_gitlab), TArg(0), TLit(S_slash), TArg(1), TLit(S_slash),
                       TLit(S_blob), TLit(S_slash), TArg(3)>>] >>

uri_rewrites ==
    << [pattern  |-> CompileHost(replace_dots(gitlab_url)) \o RewriteTail,
        template |-> RewriteTemplate] >>

\* utils.transform_ipynb_uri: the first rule whose pattern matches rewrites
\* the uri; a uri no rule matches is returned as it is
RECURSIVE transform_ipynb_uri(_, _)
transform_ipynb_uri(u, rules) ==
    IF rules = <<>> THEN u
    ELSE LET m == re_match(Head(rules).pattern, u) IN
         IF m.ok THEN format(Head(rules).template, m.groups)
         ELSE transform_ipynb_uri(u, Tail(rules))

(***************************************************************************)
(* handlers.py: default_handlers, the routes of the provider                *)
(***************************************************************************)
S_master == <<"m","a","s","t","e","r">>

Seg == <<[t |-> "seg"]>>
Rest == <<[t |-> "rest"]>>
End == <<[t |-> "end"]>>

\* r'/gitlab/([^\/]+)/([^\/]+)', the prefix of the routes of a repository
RepoPrefix == Lit(S_gitlab) \o Seg \o Lit(S_slash) \o Seg

\* lines 289-296, in order; the web framework anchors each pattern at the end
default_handlers ==
    << [pattern |-> Lit(S_gitlab) \o Seg \o End, handler |-> "AddSlashHandler"],
       [pattern |-> Lit(S_gitlab) \o Seg \o Lit(S_slash) \o End,
        handler |-> "GitLabUserHandler"],
       [pattern |-> RepoPrefix \o End, handler |-> "AddSlashHandler"],
       [pattern |-> RepoPrefix \o Lit(S_slash) \o End, handler |-> "GitLabRepoHandler"],
       [pattern |-> RepoPrefix \o Lit(S_blob_seg) \o Seg \o Lit(S_slash) \o Rest
                    \o Lit(S_slash) \o End,
        handler |-> "RemoveSlashHandler"],
       [pattern |-> RepoPrefix \o Lit(S_blob_seg) \o Seg \o Lit(S_slash) \o Rest \o End,
        handler |-> "GitLabBlobHandler"],
       [pattern |-> RepoPrefix \o Lit(S_tree_seg) \o Seg \o End,
        handler |-> "AddSlashHandler"],
       [pattern |-> RepoPrefix \o Lit(S_tree_seg) \o Seg \o Lit(S_slash) \o Rest \o End,
        handler |-> "GitLabTreeHandler"] >>

\* request.uri is request.path, then ? and request.query if there is a query
RECURSIVE IndexOf(_, _, _)
IndexOf(s, c, i) ==
    IF i > Len(s) THEN 0 ELSE IF s[i] = c THEN i ELSE IndexOf(s, c, i + 1)

PathOf(u) ==
    LET q == IndexOf(u, "?", 1) IN IF q = 0 THEN u ELSE SubSeq(u, 1, q - 1)

QueryOf(u) ==
    LET q == IndexOf(u, "?", 1) IN IF q = 0 THEN <<>> ELSE SubSeq(u, q + 1, Len(u))

\* the first route whose pattern matches request.path, with its groups
RECURSIVE Route(_, _)
Route(routes, path) ==
    IF routes = <<>> THEN [handler |-> "NoRoute", args |-> <<>>]
    ELSE LET m == re_match(Head(routes).pattern, path) IN
         IF m.ok THEN [handler |-> Head(routes).handler, args |-> m.groups]
         ELSE Route(Tail(routes), path)

(***************************************************************************)
(* handlers.py: the request handlers                                       *)
(***************************************************************************)
\* how a request ends
NoOutcome == [kind |-> "none", code |-> 0, location |-> <<>>, what |-> ""]
Redirect(loc) == [kind |-> "redirect", code |-> 302, location |-> loc, what |-> ""]
\* web.HTTPError(code): the error page of that status
Error(code) == [kind |-> "error", code |-> code, location |-> <<>>, what |-> ""]
\* an exception no handler code catches: the framework answers 500
Fault(exc) == [kind |-> "fault", code |-> 500, location |-> <<>>, what |-> exc]
\* render_template(name) and cache_and_finish, or finish_notebook
Render(what) == [kind |-> "render", code |-> 200, location |-> <<>>, what |-> what]
Serve(what) == [kind |-> "serve", code |-> 200, location |-> <<>>, what |-> what]

\* the request of an idle connection
NoRequestYet ==
    [uri |-> <<>>, handler |-> "", args |-> <<>>, pc |-> "idle",
     calls |-> <<>>, responses |-> <<>>, outcome |-> NoOutcome,
     hops |-> 0, prev |-> <<>>]

\* BaseHandler.format_prefix of the default format
format_prefix == <<>>

\* the methods AsyncGitLabClient defines (client.py lines 31-148)
ClientMethods ==
    {"authenticate", "fetch", "gitlab_api_request", "get_projects", "get_file",
     "get_contents", "get_tree", "_extract_tree_entry", "get_tree_entry"}

(***************************************************************************)
(* Configuration: the environment the process starts in                     *)
(***************************************************************************)
\* GITLAB_URL set, or unset (the default '')
GitLabUrls == {S_https_gitlab_com, <<>>}

Tokens == {<<>>, <<"s","3","c">>}

(***************************************************************************)
(* client.py: AsyncGitLabClient, the requests it builds                     *)
(***************************************************************************)
S_api_v3 == <<"/","a","p","i","/","v","3">>
S_projects == <<"p","r","o","j","e","c","t","s">>
S_projects_seg == <<"p","r","o","j","e","c","t","s","/">>
S_2F == <<"%","2","F">>
S_repository_files == <<"/","r","e","p","o","s","i","t","o","r","y","/","f","i","l","e","s">>
S_repository_tree == <<"/","r","e","p","o","s","i","t","o","r","y","/","t","r","e","e">>
S_repos_seg == <<"r","e","p","o","s","/">>
S_contents_seg == <<"/","c","o","n","t","e","n","t","s","/">>
S_user_agent == <<"T","o","r","n","a","d","o","-","A","s","y","n","c","-","G","i","t","L","a","b","-","C","l","i","e","n","t">>

\* Python's None as a parameter value
PyNone == <<"None">>

RECURSIVE lstrip(_)
lstrip(s) == IF s # <<>> /\ Head(s) = "/" THEN lstrip(Tail(s)) ELSE s

\* str.rstrip('/')
RECURSIVE rstrip(_)
rstrip(s) ==
    IF s # <<>> /\ s[Len(s)] = "/" THEN rstrip(SubSeq(s, 1, Len(s) - 1)) ELSE s

strip(s) == lstrip(rstrip(s))

\* '/'.join of the pieces that are not empty
RECURSIVE JoinNonEmpty(_)
JoinNonEmpty(ps) ==
    IF ps = <<>> THEN <<>>
    ELSE IF Head(ps) = <<>> THEN JoinNonEmpty(Tail(ps))
    ELSE LET r == JoinNonEmpty(Tail(ps)) IN
         IF r = <<>> THEN Head(ps) ELSE Head(ps) \o S_slash \o r

\* utils.url_path_join(a, b): the pieces stripped of / and joined by one /,
\* the initial / of the first and the final / of the last kept
url_path_join(a, b) ==
    LET result == JoinNonEmpty(<<strip(a), strip(b)>>)
        r1 == IF startswith(a, S_slash) THEN S_slash \o result ELSE result
        r2 == IF endswith(b, S_slash) THEN r1 \o S_slash ELSE r1
    IN IF r2 = <<"/", "/">> THEN S_slash ELSE r2

\* __init__, line 34
gitlab_api_url == url_path_join(gitlab_url, quote(S_api_v3))

\* a dict is a function from its keys; f @@ g is g.update(f)
EmptyDict == <<>>

\* a slip: the empty token is not filtered out
authenticate_unfiltered == "private_token" :> token

\* authenticate(), lines 37-41: the token is kept only if it is not empty
authenticate ==
    LET auth == "private_token" :> token IN
    [k \in {k \in DOMAIN auth : auth[k] # <<>>} |-> auth[k]]

\* what a client method ends with: a request handed to self.client.fetch, or
\* an exception raised before anything is handed over
NoRequest == [url |-> <<>>, query |-> EmptyDict, user_agent |-> <<>>]

Sent(q) == [kind |-> "sent", exc |-> "", request |-> q]
Raised(exc) == [kind |-> "raise", exc |-> exc, request |-> NoRequest]

\* a slip: the url is not checked against the API base
fetch_unchecked(url, params) ==
    LET p == IF authenticate # EmptyDict THEN authenticate @@ params ELSE params
    IN Sent([url |-> url, query |-> p, user_agent |-> S_user_agent])

\* fetch(url, callback, params), lines 43-57; url_concat(url, params) is kept
\* as the url and the query parameters it encodes
fetch(url, params) ==
    IF ~startswith(url, gitlab_api_url) THEN Raised("ValueError")
    ELSE LET p == IF authenticate # EmptyDict THEN authenticate @@ params ELSE params
         IN Sent([url |-> url, query |-> p, user_agent |-> S_user_agent])

\* gitlab_api_request(path, callback, **kwargs), lines 59-66
gitlab_api_request(path, params) ==
    fetch(url_path_join(gitlab_api_url, quote(path)), params)

\* get_projects(user, params=...), lines 69-74
get_projects(user, params) ==
    gitlab_api_request(S_projects, ("sudo" :> user) @@ params)

\* get_file(user, repo, path, ref=..., params=...), lines 76-84
get_file(user, repo, path, ref, params) ==
    LET api == S_projects_seg \o user \o S_2F \o repo \o S_repository_files
    IN fetch(url_path_join(gitlab_api_url, api),
             ("ref" :> ref) @@ ("file_path" :> path) @@ params)

\* get_contents(user, repo, path, ref=..., params=...), lines 88-94
get_contents(user, repo, path, ref, params) ==
    LET p == S_repos_seg \o user \o S_slash \o repo \o S_contents_seg \o path
    IN gitlab_api_request(p, IF ref # PyNone THEN ("ref" :> ref) @@ params ELSE params)

\* get_tree(user, repo, path, ref=..., params=...), lines 96-107
get_tree(user, repo, path, ref, params) ==
    LET api == S_projects_seg \o user \o S_2F \o repo \o S_repository_tree
        p1 == IF path # <<>> /\ path # PyNone THEN ("path" :> path) @@ params ELSE params
        p2 == IF ref # <<>> /\ ref # PyNone THEN ("ref_name" :> ref) @@ p1 ELSE p1
    IN fetch(url_path_join(gitlab_api_url, api), p2)

\* the signature of get_tree, line 96 (self apart): the parameters in order and
\* how many of them have no default
get_tree_signature ==
    [names |-> <<"user", "repo", "path", "ref", "callback">>, required |-> 3]

\* Python's binding of a call to a signature: the parameters without default
\* that neither a positional nor a keyword argument fills
MissingArguments(signature, positional, keywords) ==
    {signature.names[i] : i \in (positional + 1)..signature.required} \ keywords

\* a Future handed back to the caller, not yet completed
Pending(q) == [kind |-> "future", exc |-> "", request |-> q]

\* get_tree_entry(user, repo, path, ref=..., **kwargs), lines 125-148: the call
\* of line 147 passes user and repo by position, ref and callback by keyword
\* and the rest of kwargs; the Future of line 134 is returned at line 148
get_tree_entry(user, repo, path, ref, kwargs) ==
    LET kw == IF \E i \in DOMAIN path : path[i] = "/"
              THEN ("recursive" :> TRUE) @@ kwargs ELSE kwargs
        missing == MissingArguments(get_tree_signature, 2,
                                    {"ref", "callback"} \cup DOMAIN kw)
    IN IF missing # {} THEN Raised("TypeError")
       ELSE LET inner == get_tree(user, repo, kw["path"], ref, EmptyDict)
            IN IF inner.kind = "sent" THEN Pending(inner.request) ELSE inner

NoCall == [method |-> "", url |-> <<>>, result |-> Raised("")]

(***************************************************************************)
(* client.py: _extract_tree_entry                                          *)
(***************************************************************************)
\* What a call ends with: a returned value or a raised exception.
\* HTTPError carries its code and the two values formatted into its message.
NoEntry == [path |-> <<>>, type |-> "none"]

Return(e) ==
    [kind |-> "return", entry |-> e, exc |-> "", code |-> 0,
     msg_path |-> <<>>, msg_count |-> 0]

Raise(exc, code, p, n) ==
    [kind |-> "raise", entry |-> NoEntry, exc |-> exc, code |-> code,
     msg_path |-> p, msg_count |-> n]

NoResult ==
    [kind |-> "none", entry |-> NoEntry, exc |-> "", code |-> 0,
     msg_path |-> <<>>, msg_count |-> 0]

\* json.loads of a response body: a JSON array is a Python list of dicts, a
\* JSON object is a dict (iterating it yields its keys, which are strings)
JsonList(items) == [shape |-> "list", items |-> items, keys |-> <<>>]
JsonDict(keys)  == [shape |-> "dict", items |-> <<>>, keys |-> keys]

\* tree_response: error is 0 for a successful fetch, else the HTTP code
Response(error, data) == [error |-> error, data |-> data]

\* for entry in data: if entry['path'] == path: return entry
\* (lines 119-121); NoResult when the loop ends without returning

RECURSIVE ScanList(_, _, _)
ScanList(items, path, i) ==
    IF i > Len(items) THEN NoResult
    ELSE IF items[i].path = path THEN Return(items[i])
    ELSE ScanList(items, path, i + 1)

\* a slip: the scan keeps going and returns the last entry that matches
RECURSIVE ScanListLast(_, _, _)
ScanListLast(items, path, i) ==
    IF i < 1 THEN NoResult
    ELSE IF items[i].path = path THEN Return(items[i])
    ELSE ScanListLast(items, path, i - 1)

_extract_tree_entry_last(path, resp) ==
    IF resp.error # 0 THEN Raise("HTTPError", resp.error, <<>>, 0)
    ELSE ScanListLast(resp.data.items, path, Len(resp.data.items))

\* _extract_tree_entry(self, path, tree_response), lines 110-123
_extract_tree_entry(path, resp) ==
    IF resp.error # 0
    THEN Raise("HTTPError", resp.error, <<>>, 0)            \* tree_response.rethrow()
    ELSE LET data == resp.data IN
      IF data.shape = "list"
      THEN LET r == ScanList(data.items, path, 1) IN
           IF r.kind = "return" THEN r
           \* line 123 evaluates data['tree'] on a list before HTTPError is built:
           \* TypeError (list indices must be integers)
           ELSE Raise("TypeError", 0, <<>>, 0)
      ELSE
        \* iterating a dict yields its keys; entry['path'] on a str is a TypeError
        IF data.keys # <<>> THEN Raise("TypeError", 0, <<>>, 0)
        \* an empty dict: the loop does nothing, data['tree'] is a KeyError
        ELSE Raise("KeyError", 0, <<>>, 0)

(***************************************************************************)
(* handlers.py: the classification loop of GitLabTreeHandler.get            *)
(***************************************************************************)

\* u'/github/{user}/{repo}/tree/{ref}/{path}' (line 154) and
\* u'/github/{user}/{repo}/blob/{ref}/{path}' (line 161)
EntryUrl(user, repo, kindseg, ref, path) ==
    S_github \o user \o S_slash \o repo \o kindseg \o ref \o S_slash \o path

\* base_url, lines 133-135: u"/github/{user}/{repo}/tree/{ref}"
base_url(user, repo, ref) ==
    S_github \o user \o S_slash \o repo \o S_tree_seg \o ref

\* nav_ref["url"] of the reference called name, lines 116-119
nav_ref_url(user, repo, name, path) ==
    S_github \o user \o S_slash \o repo \o S_tree_seg \o name \o S_slash \o path

\* one pass of the loop body (lines 151-175): the entry e built for file, and
\* the list it is appended to
EntryOf(user, repo, ref, file) ==
    IF file.type = "dir"
    THEN [list |-> "dirs", e |-> [name |-> file.name, class |-> "fa-folder-open",
            url |-> quote(EntryUrl(user, repo, S_tree_seg, ref, file.path))]]
    ELSE IF endswith(file.name, S_ipynb)
    THEN [list |-> "ipynbs", e |-> [name |-> file.name, class |-> "fa-book",
            url |-> quote(EntryUrl(user, repo, S_blob_seg, ref, file.path))]]
    ELSE IF file.html_url # <<>>
    THEN [list |-> "others", e |-> [name |-> file.name, class |-> "fa-share",
            url |-> file.html_url]]
    ELSE [list |-> "others", e |-> [name |-> file.name, class |-> "fa-folder-close",
            url |-> <<>>]]

\* the loop (line 150) over contents[i..], with the three lists built so far
RECURSIVE ClassifyLoop(_, _, _, _, _, _, _, _)
ClassifyLoop(user, repo, ref, files, i, dirs, ipynbs, others) ==
    IF i > Len(files)
    THEN dirs \o ipynbs \o others              \* entries.extend(...), lines 178-180
    ELSE LET x == EntryOf(user, repo, ref, files[i]) IN
         ClassifyLoop(user, repo, ref, files, i + 1,
            IF x.list = "dirs" THEN Append(dirs, x.e) ELSE dirs,
            IF x.list = "ipynbs" THEN Append(ipynbs, x.e) ELSE ipynbs,
            IF x.list = "others" THEN Append(others, x.e) ELSE others)

\* a slip: each directory is put in front of the directories seen before it
RECURSIVE ClassifyLoopPrepend(_, _, _, _, _, _, _, _)
ClassifyLoopPrepend(user, repo, ref, files, i, dirs, ipynbs, others) ==
    IF i > Len(files)
    THEN dirs \o ipynbs \o others
    ELSE LET x == EntryOf(user, repo, ref, files[i]) IN
         ClassifyLoopPrepend(user, repo, ref, files, i + 1,
            IF x.list = "dirs" THEN <<x.e>> \o dirs ELSE dirs,
            IF x.list = "ipynbs" THEN Append(ipynbs, x.e) ELSE ipynbs,
            IF x.list = "others" THEN Append(others, x.e) ELSE others)

classify_prepend(user, repo, ref, files) ==
    ClassifyLoopPrepend(user, repo, ref, files, 1, <<>>, <<>>, <<>>)

\* lines 146-180: entries, dirs, ipynbs, others start empty
classify(user, repo, ref, files) ==
    ClassifyLoop(user, repo, ref, files, 1, <<>>, <<>>, <<>>)

(***************************************************************************)
(* Specification SpecRewrite: a pasted upstream URI is rewritten            *)
(***************************************************************************)
MaxRest == 3

\* U+0159 is the one character r-caron of the test URIs (a non-ASCII character)
RestAlphabet == {"a", "/", " ", "U+0159"}

\* the same host with its dot replaced: not a URI of the configured host
OtherHost(h) == [i \in 1..Len(h) |-> IF h[i] = "." THEN "x" ELSE h[i]]

UriParts ==
    [base : GitLabUrls \cup {OtherHost(h) : h \in GitLabUrls},
     user : {<<"u">>, <<"U+0159", " ", "b">>},
     repo : {<<"r">>, S_blob},
     kind : {S_blob, S_tree, S_raw},
     rest : SeqsUpTo(RestAlphabet, MaxRest)]

UriOf(p) ==
    p.base \o S_slash \o p.user \o S_slash \o p.repo \o S_slash \o p.kind
    \o S_slash \o p.rest

NoParts == [base |-> <<>>, user |-> <<>>, repo |-> <<>>, kind |-> <<>>, rest |-> <<>>]

RewriteIdle == uri_in = NoParts /\ uri = <<>> /\ new = <<>> /\ rw_done = FALSE

LookupIdle ==
    /\ lk_path = <<>> /\ tree_response = Response(0, JsonList(<<>>))
    /\ lk_result = NoResult /\ lk_done = FALSE

ClassifyIdle == contents = <<>> /\ entries = <<>> /\ cl_done = FALSE

ClientIdle == wire = {} /\ last = NoCall

NumRequests == 2

Conns == 1..NumRequests

HandlersIdle == req = [r \in Conns |-> NoRequestYet]

ConfigFixed == gitlab_url = S_https_gitlab_com /\ token = <<>>

InitRewrite ==
    /\ gitlab_url \in GitLabUrls
    /\ token = <<>>
    /\ uri_in \in UriParts
    /\ uri = UriOf(uri_in)
    /\ new = <<>>
    /\ rw_done = FALSE
    /\ LookupIdle /\ ClassifyIdle /\ ClientIdle /\ HandlersIdle

\* test_handlers.py assert_rewrite: new = transform_ipynb_uri(uri, uri_rewrites())
Rewrite ==
    /\ ~rw_done
    /\ uri # <<>>
    /\ new' = transform_ipynb_uri(uri, uri_rewrites)
    /\ rw_done' = TRUE
    /\ UNCHANGED <<cfgVars, uri_in, uri, lkVars, clVars, ccVars, req>>

NextRewrite == Rewrite

SpecRewrite == InitRewrite /\ [][NextRewrite]_vars

\* the internal route /gitlab/<user>/<repo>/<kind>/<rest>
InternalRoute(user, repo, kind, rest) ==
    S_gitlab \o user \o S_slash \o repo \o S_slash \o kind \o S_slash \o rest

\* C1: every upstream URI <base>/<user>/<repo>/<kind>/<rest> of the configured
\* host with kind blob or tree is rewritten to /gitlab/<user>/<repo>/<kind>/<rest>,
\* the rest unchanged character for character.
C1_BlobTreeRewritten ==
    (rw_done /\ uri_in.base = gitlab_url /\ uri_in.kind \in {S_blob, S_tree})
        => new = InternalRoute(uri_in.user, uri_in.repo, uri_in.kind, uri_in.rest)

\* a tree URI whose rest holds a space, a non-ASCII character and a slash was rewritten
C1_Witness ==
    /\ rw_done /\ uri_in.base = gitlab_url /\ uri_in.kind = S_tree
    /\ uri_in.rest = <<" ", "U+0159", "/">>
    /\ new = InternalRoute(uri_in.user, uri_in.repo, S_tree, uri_in.rest)

\* C2: every upstream URI <base>/<user>/<repo>/raw/<rest> of the configured host
\* is rewritten to the internal blob route /gitlab/<user>/<repo>/blob/<rest>.
C2_RawRewrittenToBlob ==
    (rw_done /\ uri_in.base = gitlab_url /\ uri_in.kind = S_raw)
        => new = InternalRoute(uri_in.user, uri_in.repo, S_blob, uri_in.rest)

(***************************************************************************)
(* Specification SpecLookup: _extract_tree_entry on a fetched tree listing  *)
(***************************************************************************)
MaxEntries == 3

\* upper and lower case differ; d/a lies below the top level
LookupPaths == {<<"a">>, <<"A">>, <<"d", "/", "a">>}

\* two entries of the same path differ in their type
TreeEntries == [path : LookupPaths, type : {"blob", "tree"}]

TreeData ==
    {JsonList(items) : items \in SeqsUpTo(TreeEntries, MaxEntries)}
    \cup {JsonDict(<<"tree">>), JsonDict(<<>>)}

TreeResponses ==
    {Response(0, d) : d \in TreeData} \cup {Response(404, JsonList(<<>>))}

InitLookup ==
    /\ ConfigFixed /\ RewriteIdle /\ ClassifyIdle /\ ClientIdle /\ HandlersIdle
    /\ lk_path \in LookupPaths
    /\ tree_response \in TreeResponses
    /\ lk_result = NoResult
    /\ lk_done = FALSE

\* get_tree_entry's cb, line 137: self._extract_tree_entry(path, response)
Lookup ==
    /\ ~lk_done
    /\ lk_result' = _extract_tree_entry(lk_path, tree_response)
    /\ lk_done' = TRUE
    /\ UNCHANGED <<cfgVars, rwVars, clVars, ccVars, req, lk_path, tree_response>>

NextLookup == Lookup

SpecLookup == InitLookup /\ [][NextLookup]_vars

\* the lookup ran on a successfully fetched listing (a JSON array)
LookedUpListing ==
    lk_done /\ tree_response.error = 0 /\ tree_response.data.shape = "list"

Listing == tree_response.data.items

Matches == {i \in 1..Len(Listing) : Listing[i].path = lk_path}

Min(S) == CHOOSE x \in S : \A y \in S : x <= y

\* C6: the lookup of a path that equals no entry's path in the fetched listing
\* fails with HTTPError 404 that reports the path and the number of entries;
\* it returns nothing.
C6_AbsentPathIs404 ==
    (LookedUpListing /\ Matches = {})
        => /\ lk_result.kind = "raise"
           /\ lk_result.exc = "HTTPError" /\ lk_result.code = 404
           /\ lk_result.msg_path = lk_path
           /\ lk_result.msg_count = Len(Listing)

\* C7: the lookup over a fetched listing returns the first entry, in listing
\* order, whose path equals the target exactly.
C7_FirstExactMatch ==
    (LookedUpListing /\ Matches # {})
        => lk_result = Return(Listing[Min(Matches)])

\* a lookup of a that passed over A and returned the first of two entries a
C7_Witness ==
    /\ LookedUpListing /\ lk_path = <<"a">>
    /\ Len(Listing) = 3 /\ Matches = {2, 3}
    /\ Listing[1].path = <<"A">>
    /\ Listing[2] # Listing[3]
    /\ lk_result = Return(Listing[2])

(***************************************************************************)
(* Specification SpecClassify: the classification loop on a listing         *)
(***************************************************************************)
MaxFiles == 3

\* a directory, a notebook, a plain file; the same names as dir or file,
\* with or without a display URL (a submodule has none)
FileNames == {<<"d">>, <<"n">> \o S_ipynb, <<"f">>}

Files ==
    {[name |-> n, path |-> n, type |-> t, html_url |-> h] :
        n \in FileNames, t \in {"dir", "file"}, h \in {<<>>, <<"h">>}}

CUser == <<"u">>
CRepo == <<"r">>
CRef  == <<"m">>

InitClassify ==
    /\ ConfigFixed /\ RewriteIdle /\ LookupIdle /\ ClientIdle /\ HandlersIdle
    /\ contents \in SeqsUpTo(Files, MaxFiles)
    /\ entries = <<>>
    /\ cl_done = FALSE

\* GitLabTreeHandler.get lines 146-180 on a listing
Classify ==
    /\ ~cl_done
    /\ entries' = classify(CUser, CRepo, CRef, contents)
    /\ cl_done' = TRUE
    /\ UNCHANGED <<cfgVars, rwVars, lkVars, ccVars, req, contents>>

NextClassify == Classify

SpecClassify == InitClassify /\ [][NextClassify]_vars

IsDirectory(f) == f.type = "dir"
IsNotebook(f)  == ~IsDirectory(f) /\ endswith(f.name, S_ipynb)
IsOther(f)     == ~IsDirectory(f) /\ ~IsNotebook(f)

\* the listing in display order: each group in upstream order
Displayed ==
    SelectSeq(contents, IsDirectory) \o SelectSeq(contents, IsNotebook)
    \o SelectSeq(contents, IsOther)

ClassesOf(f) ==
    IF IsDirectory(f) THEN {"fa-folder-open"}
    ELSE IF IsNotebook(f) THEN {"fa-book"}
    ELSE {"fa-share", "fa-folder-close"}

\* C8: the displayed entries are the directories, then the notebooks, then the
\* other entries of the listing, each entry once and each group in upstream order.
C8_StablePartition ==
    cl_done =>
        /\ Len(entries) = Len(contents)
        /\ \A j \in 1..Len(entries) :
              /\ entries[j].name = Displayed[j].name
              /\ entries[j].class \in ClassesOf(Displayed[j])

\* a listing of a plain file without display URL, then two directories of
\* different names, was classified: the directories come first, in their order
C8_Witness ==
    /\ cl_done /\ Len(contents) = 3
    /\ IsOther(contents[1]) /\ contents[1].html_url = <<>>
    /\ IsDirectory(contents[2]) /\ IsDirectory(contents[3])
    /\ contents[2].name # contents[3].name
    /\ entries[1].name = contents[2].name
    /\ entries[2].name = contents[3].name
    /\ entries[3].name = contents[1].name

(***************************************************************************)
(* Specification SpecClient: callers use the methods of AsyncGitLabClient   *)
(***************************************************************************)
MaxCalls == 2

\* urls handed to fetch directly: under the API base, beside it, on the
\* configured host outside the API, on another host
FetchUrls ==
    { gitlab_api_url \o <<"/","p">>,
      gitlab_api_url,
      SubSeq(gitlab_api_url, 1, Len(gitlab_api_url) - 1),
      gitlab_url \o <<"/","u","/","r","/","r","a","w","/","m","/","f">>,
      <<"h","t","t","p","s",":","/","/","e",".","i","o">> \o S_api_v3 \o <<"/","p">> }

\* params a caller supplies: none, or a sort order and a page
CallerParams ==
    { EmptyDict, ("sort" :> <<"d","e","s","c">>) @@ ("page" :> <<"2">>) }

CUsers == {<<"u">>, <<"a", " ", "b">>}
CPaths == {<<>>, <<"d", "/", "n">> \o S_ipynb}
CRefs  == {<<"m">>, PyNone}

\* the requests a call hands to the HTTP client
Handed(result) ==
    IF result.kind \in {"sent", "future"} THEN {result.request} ELSE {}

Called(method, url, result) ==
    /\ Cardinality(wire) < MaxCalls
    /\ wire' = wire \cup Handed(result)
    /\ last' = [method |-> method, url |-> url, result |-> result]
    /\ UNCHANGED <<cfgVars, rwVars, lkVars, clVars, req>>

CallFetch ==
    \E url \in FetchUrls, params \in CallerParams :
        Called("fetch", url, fetch(url, params))

CallGitlabApiRequest ==
    \E path \in {S_projects, <<>>}, params \in CallerParams :
        Called("gitlab_api_request", <<>>, gitlab_api_request(path, params))

CallGetProjects ==
    \E user \in CUsers, params \in CallerParams :
        Called("get_projects", <<>>, get_projects(user, params))

CallGetFile ==
    \E path \in CPaths, ref \in CRefs, params \in CallerParams :
        Called("get_file", <<>>, get_file(CUser, CRepo, path, ref, params))

CallGetContents ==
    \E path \in CPaths, ref \in CRefs, params \in CallerParams :
        Called("get_contents", <<>>, get_contents(CUser, CRepo, path, ref, params))

CallGetTree ==
    \E path \in CPaths, ref \in CRefs, params \in CallerParams :
        Called("get_tree", <<>>, get_tree(CUser, CRepo, path, ref, params))

\* the keyword arguments a caller of get_tree_entry adds
EntryKwargs == {EmptyDict, "params" :> EmptyDict}

CallGetTreeEntry ==
    \E path \in {<<"n">>, <<"d", "/", "n">>}, ref \in {<<"m">>}, kwargs \in EntryKwargs :
        Called("get_tree_entry", path, get_tree_entry(CUser, CRepo, path, ref, kwargs))

InitClient ==
    /\ gitlab_url \in GitLabUrls
    /\ token \in Tokens
    /\ RewriteIdle /\ LookupIdle /\ ClassifyIdle /\ HandlersIdle
    /\ wire = {}
    /\ last = NoCall

NextClient ==
    \/ CallFetch
    \/ CallGitlabApiRequest
    \/ CallGetProjects
    \/ CallGetFile
    \/ CallGetContents
    \/ CallGetTree
    \/ CallGetTreeEntry

SpecClient == InitClient /\ [][NextClient]_vars

\* C9: fetch hands no request to the HTTP client for a url that does not start
\* with the configured API base: such a call raises ValueError and nothing is
\* sent, so no request on the wire (with or without token) lies outside the base.
C9_OutsideBaseRejected ==
    [][ /\ \A q \in wire' \ wire : startswith(q.url, gitlab_api_url)
        /\ (last'.method = "fetch" /\ ~startswith(last'.url, gitlab_api_url))
              => (wire' = wire /\ last'.result = Raised("ValueError")) ]_vars

\* fetch was called with a token configured for a url on another host, raised
\* ValueError, and the wire holds only what an earlier call sent
C9_Witness ==
    /\ token # <<>> /\ gitlab_url # <<>>
    /\ last.method = "fetch"
    /\ last.url = <<"h","t","t","p","s",":","/","/","e",".","i","o">> \o S_api_v3 \o <<"/","p">>
    /\ last.result = Raised("ValueError")
    /\ Cardinality(wire) = 1

\* C10: every request the client sends carries the configured token as the
\* query parameter private_token when a token is configured, and no
\* private_token parameter when none is.
C10_TokenOnEveryRequest ==
    \A q \in wire :
        /\ token # <<>> =>
              ("private_token" \in DOMAIN q.query /\ q.query["private_token"] = token)
        /\ token = <<>> => "private_token" \notin DOMAIN q.query

\* with a token configured, get_projects with caller-supplied params sent a
\* request that carries the caller's sort and page, the sudo user and the token
C10_Witness ==
    /\ token # <<>>
    /\ last.method = "get_projects" /\ last.result.kind = "sent"
    /\ last.result.request \in wire
    /\ DOMAIN last.result.request.query = {"sort", "page", "sudo", "private_token"}
    /\ last.result.request.query["private_token"] = token

(***************************************************************************)
(* Specification Spec: requests through the handlers of the provider        *)
(***************************************************************************)
MaxHops == 2

U_user == S_gitlab \o <<"u">>
U_repo == U_user \o <<"/", "r">>
U_tree == U_repo \o S_tree_seg \o <<"m">>
U_blob == U_repo \o S_blob_seg \o <<"m">>

\* the URIs a browser starts with
StartUris ==
    { U_user,
      U_user \o <<"/", "?", "p", "a", "g", "e", "=", "2">>,
      U_repo,
      U_repo \o <<"/", "x">>,
      S_gitlab \o <<"a", "/", "b", "/">>,
      U_tree \o <<"/", "d">>,
      U_tree \o <<"/", "d", "?", "x">>,
      U_blob \o <<"/", "d", "/", "n">> \o S_ipynb,
      U_blob \o <<"/", "f", "/">> }

\* what the upstream API answers to a call: the HTTP status and, for 200, the
\* shape of the JSON body; for a file its encoding tag and whether its bytes
\* are UTF-8 text
Answer(status, shape, encoding, utf8) ==
    [status |-> status, shape |-> shape, encoding |-> encoding, utf8 |-> utf8]

Failures == {Answer(404, "", "", FALSE), Answer(500, "", "", FALSE)}

Answers(pc) ==
    Failures \cup
    CASE pc = "wait_projects" -> {Answer(200, "list", "", FALSE)}
      [] pc = "wait_contents" ->
            {Answer(200, "list", "", FALSE), Answer(200, "dict", "", FALSE)}
      [] pc = "wait_file" ->
            {Answer(200, "dict", "base64", TRUE), Answer(200, "dict", "base64", FALSE),
             Answer(200, "dict", "text", TRUE)}
      [] OTHER -> {}

\* BaseHandler.catch_client_error: the upstream HTTP error becomes the
\* web.HTTPError of the handler, which ends the request with that error page
catch_client_error(answer) == Error(answer.status)

\* getattr(self.gitlab_client, name)
HasMethod(name) == name \in ClientMethods

Set(r, rec) == req' = [req EXCEPT ![r] = rec] /\ UNCHANGED <<cfgVars, pureVars>>

Ended(rq, outcome) == [rq EXCEPT !.pc = "done", !.outcome = outcome]

\* the handler called a client method: the request is on its way and the
\* coroutine waits at its yield, or the call raised
Await(rq, result, pc) ==
    IF result.kind = "sent"
    THEN [rq EXCEPT !.pc = pc, !.calls = Append(@, result.request)]
    ELSE Ended(rq, Fault(result.exc))

\* a request for uri as the framework hands it to its handler: routed by
\* default_handlers, the groups of the route as the arguments of get
Routed(u, hops, prev) ==
    LET rt == Route(default_handlers, PathOf(u)) IN
    [NoRequestYet EXCEPT !.uri = u, !.handler = rt.handler, !.args = rt.args,
                         !.pc = "start", !.hops = hops, !.prev = prev]

\* the first requests of a browser
StartRequests == {Routed(u, 0, <<>>) : u \in StartUris}

\* The requests that can arrive on connection r: a first request, or the
\* request that follows the redirect the connection's last request ended
\* with. The handler's get runs up to its first yield without suspension.
Arrivals(r) ==
    LET rq == req[r] IN
    IF rq.pc = "idle" THEN StartRequests
    ELSE IF rq.pc = "done" /\ rq.outcome.kind = "redirect" /\ rq.hops < MaxHops
    THEN {Routed(rq.outcome.location, rq.hops + 1,
                 <<[uri |-> rq.uri, handler |-> rq.handler, outcome |-> rq.outcome]>>)}
    ELSE {}

\* the arriving requests of connection r that are routed to handler h
Handles(r, h) == {rq \in Arrivals(r) : rq.handler = h}

\* a slip: the canonicalization check is left out
TreeGetUnchecked(r) ==
    \E rq \in Handles(r, "GitLabTreeHandler") :
        Set(r, Await(rq, get_contents(rq.args[1], rq.args[2], rstrip(rq.args[4]),
                                      rq.args[3], EmptyDict), "wait_contents"))

\* a slip: the redirect appends / whether or not the URI ends in one
TreeGetAlwaysRedirects(r) ==
    \E rq \in Handles(r, "GitLabTreeHandler") :
        Set(r, Ended(rq, Redirect(rq.uri \o S_slash)))

\* GitLabTreeHandler.get, lines 103-109, up to the first yield
TreeGet(r) ==
    \E rq \in Handles(r, "GitLabTreeHandler") :
        LET user == rq.args[1]
            repo == rq.args[2]
            ref  == rq.args[3]
            path == rstrip(rq.args[4])
        IN
        IF ~endswith(rq.uri, S_slash)
        THEN Set(r, Ended(rq, Redirect(rq.uri \o S_slash)))
        ELSE Set(r, Await(rq, get_contents(user, repo, path, ref, EmptyDict),
                          "wait_contents"))

\* a slip: a failed contents call is swallowed and the handler goes on to refs()
TreeContentsGoesOn(r) ==
    LET rq == req[r] IN
    /\ rq.pc = "wait_contents"
    /\ \E a \in Answers("wait_contents") :
          LET got == [rq EXCEPT !.responses = Append(@, a)] IN
          Set(r, Ended(got, Fault("AttributeError")))

\* a slip: the listing is rendered without waiting for refs()
TreeContentsRenders(r) ==
    LET rq == req[r] IN
    /\ rq.pc = "wait_contents"
    /\ \E a \in Answers("wait_contents") :
          LET got == [rq EXCEPT !.responses = Append(@, a)] IN
          IF a.status # 200 THEN Set(r, Ended(got, catch_client_error(a)))
          ELSE IF a.shape = "list" THEN Set(r, Ended(got, Render("treelist.html")))
          ELSE Set(r, Ended(got, Fault("AttributeError")))

\* GitLabTreeHandler.get, lines 108-113, from the answer to the contents call:
\* an upstream error ends the request in catch_client_error; else refs()
\* (lines 191-202) runs and looks up get_branches on the client, which the
\* client does not define: AttributeError, which catch_client_error does not
\* catch. Lines 115-189 never run.
TreeContents(r) ==
    LET rq == req[r] IN
    /\ rq.pc = "wait_contents"
    /\ \E a \in Answers("wait_contents") :
          LET got == [rq EXCEPT !.responses = Append(@, a)] IN
          IF a.status # 200 THEN Set(r, Ended(got, catch_client_error(a)))
          ELSE IF ~HasMethod("get_branches")
               THEN Set(r, Ended(got, Fault("AttributeError")))
               ELSE Set(r, [got EXCEPT !.pc = "wait_branches"])

\* RequestHandler.get_argument(name, None) on the query name=value
get_argument(query, name) ==
    LET key == name \o <<"=">> IN
    IF startswith(query, key) THEN SubSeq(query, Len(key) + 1, Len(query)) ELSE PyNone

S_page == <<"p","a","g","e">>
S_desc == <<"d","e","s","c">>

\* a slip: params is one dict shared by all requests, so the page another
\* request put into it is still there
UserGetSharedParams(r) ==
    \E rq \in Handles(r, "GitLabUserHandler") :
        LET page == get_argument(QueryOf(rq.uri), S_page)
            sort == "sort" :> S_desc
            left == {req[s].calls[1].query["page"] :
                        s \in {t \in Conns \ {r} :
                                  /\ req[t].calls # <<>>
                                  /\ "page" \in DOMAIN req[t].calls[1].query}}
            params == IF page # PyNone /\ page # <<>> THEN ("page" :> page) @@ sort
                      ELSE IF left # {} THEN ("page" :> CHOOSE p \in left : TRUE) @@ sort
                      ELSE sort
        IN Set(r, Await(rq, get_projects(rq.args[1], params), "wait_projects"))

\* GitLabUserHandler.get, lines 67-73, up to the yield
UserGet(r) ==
    \E rq \in Handles(r, "GitLabUserHandler") :
        LET page == get_argument(QueryOf(rq.uri), S_page)
            sort == "sort" :> S_desc
            params == IF page # PyNone /\ page # <<>> THEN ("page" :> page) @@ sort
                      ELSE sort
        IN Set(r, Await(rq, get_projects(rq.args[1], params), "wait_projects"))

\* a slip: the call is not wrapped in catch_client_error, the client's
\* HTTPError leaves the handler uncaught
UserProjectsUncaught(r) ==
    LET rq == req[r] IN
    /\ rq.pc = "wait_projects"
    /\ \E a \in Answers("wait_projects") :
          LET got == [rq EXCEPT !.responses = Append(@, a)] IN
          IF a.status # 200 THEN Set(r, Ended(got, Fault("HTTPError")))
          ELSE Set(r, Ended(got, Render("userview.html")))

\* GitLabUserHandler.get, lines 72-90, from the answer to the projects call
UserProjects(r) ==
    LET rq == req[r] IN
    /\ rq.pc = "wait_projects"
    /\ \E a \in Answers("wait_projects") :
          LET got == [rq EXCEPT !.responses = Append(@, a)] IN
          IF a.status # 200 THEN Set(r, Ended(got, catch_client_error(a)))
          ELSE Set(r, Ended(got, Render("userview.html")))

\* a slip: the redirect goes to the tree route without its final /
RepoGetNoSlash(r) ==
    \E rq \in Handles(r, "GitLabRepoHandler") :
        Set(r, Ended(rq, Redirect(format_prefix \o S_gitlab \o rq.args[1] \o S_slash
                                  \o rq.args[2] \o S_tree_seg \o S_master)))

\* GitLabRepoHandler.get, lines 95-96
RepoGet(r) ==
    \E rq \in Handles(r, "GitLabRepoHandler") :
        Set(r, Ended(rq, Redirect(format_prefix \o S_gitlab \o rq.args[1] \o S_slash
                                  \o rq.args[2] \o S_tree_seg \o S_master \o S_slash)))

\* GitLabBlobHandler.get, lines 216-239, up to the yield
BlobGet(r) ==
    \E rq \in Handles(r, "GitLabBlobHandler") :
        Set(r, Await(rq, get_file(rq.args[1], rq.args[2], rq.args[4], rq.args[3],
                                 EmptyDict), "wait_file"))

\* a slip: the bytes are handed on without the decode of lines 261-269
BlobFileUndecoded(r) ==
    LET rq == req[r]
        path == rq.args[4]
    IN
    /\ rq.pc = "wait_file"
    /\ \E a \in Answers("wait_file") :
          LET got == [rq EXCEPT !.responses = Append(@, a)] IN
          IF a.status # 200 THEN Set(r, Ended(got, catch_client_error(a)))
          ELSE IF endswith(path, S_ipynb) THEN Set(r, Ended(got, Render("notebook")))
               ELSE Set(r, Ended(got, Serve("file")))

\* GitLabBlobHandler.get, lines 237-282, from the answer to the file call
BlobFile(r) ==
    LET rq == req[r]
        path == rq.args[4]
    IN
    /\ rq.pc = "wait_file"
    /\ \E a \in Answers("wait_file") :
          LET got == [rq EXCEPT !.responses = Append(@, a)]
              \* base64_decode gives bytes, else the content is text already
              isbytes == a.encoding = "base64"
          IN
          IF a.status # 200 THEN Set(r, Ended(got, catch_client_error(a)))
          ELSE IF endswith(path, S_ipynb)
               THEN IF isbytes /\ ~a.utf8
                    THEN Set(r, Ended(got, Error(400)))       \* lines 267-269
                    ELSE Set(r, Ended(got, Render("notebook")))
               ELSE Set(r, Ended(got, Serve("file")))

\* base.AddSlashHandler.get: redirect to the path with / appended, query kept
WithQuery(path, query) ==
    IF query = <<>> THEN path ELSE path \o <<"?">> \o query

AddSlashGet(r) ==
    \E rq \in Handles(r, "AddSlashHandler") :
        Set(r, Ended(rq, Redirect(WithQuery(PathOf(rq.uri) \o S_slash, QueryOf(rq.uri)))))

\* base.RemoveSlashHandler.get: redirect to the path with its final / removed
RemoveSlashGet(r) ==
    \E rq \in Handles(r, "RemoveSlashHandler") :
        Set(r, Ended(rq, Redirect(WithQuery(rstrip(PathOf(rq.uri)), QueryOf(rq.uri)))))

\* no route of default_handlers matches: the request is not this provider's
NoRouteGet(r) ==
    \E rq \in Handles(r, "NoRoute") :
        Set(r, Ended(rq, [kind |-> "outside", code |-> 0, location |-> <<>>, what |-> ""]))

Init ==
    /\ gitlab_url = S_https_gitlab_com
    /\ token = <<"s","3","c">>
    /\ RewriteIdle /\ LookupIdle /\ ClassifyIdle /\ ClientIdle
    /\ req = [r \in Conns |-> NoRequestYet]

Next ==
    \E r \in Conns :
        \/ TreeGet(r)
        \/ TreeContents(r)
        \/ UserGet(r)
        \/ UserProjects(r)
        \/ RepoGet(r)
        \/ BlobGet(r)
        \/ BlobFile(r)
        \/ AddSlashGet(r)
        \/ RemoveSlashGet(r)
        \/ NoRouteGet(r)

Spec == Init /\ [][Next]_vars

\* the upstream call the request on connection r waits for is answered
Answered(r) == TreeContents(r) \/ UserProjects(r) \/ BlobFile(r)

\* the browser follows the redirect the request on connection r ended with
Followed(r) ==
    /\ req[r].pc = "done" /\ req[r].outcome.kind = "redirect"
    /\ \/ TreeGet(r) \/ UserGet(r) \/ RepoGet(r) \/ BlobGet(r)
       \/ AddSlashGet(r) \/ RemoveSlashGet(r) \/ NoRouteGet(r)

\* Followed(r) is enabled exactly when the request ended in a redirect within
\* the hops the model follows: every URI is routed, to a handler or to none
CanFollow(r) ==
    req[r].pc = "done" /\ req[r].outcome.kind = "redirect" /\ req[r].hops < MaxHops

\* Every request goes on: the HTTP client completes each upstream call with
\* an answer or an error and the IOLoop resumes the suspended coroutine; the
\* browser follows a redirect it is given. Both are weak fairness; that of
\* Followed(r) is written out, []<>~ENABLED <<A>>_vars \/ []<><<A>>_vars, with
\* its enabling condition as the state predicate CanFollow(r).
FairSpec ==
    Spec /\ \A r \in Conns :
                /\ WF_vars(Answered(r))
                /\ []<>(~CanFollow(r)) \/ []<><<Followed(r)>>_vars

\* the request of connection r was handled by GitLabTreeHandler.get
IsTree(rq) == rq.handler = "GitLabTreeHandler" /\ rq.pc # "idle"

\* the slash canonicalization of GitLabTreeHandler.get for uri u
Canonicalized(u) == Redirect(u \o S_slash)

\* the request follows a canonicalization redirect of the tree handler
FollowsCanonicalization(rq) ==
    /\ rq.prev # <<>>
    /\ rq.prev[1].handler = "GitLabTreeHandler"
    /\ ~endswith(rq.prev[1].uri, S_slash)
    /\ rq.prev[1].outcome = Canonicalized(rq.prev[1].uri)

\* C3: a tree request whose URI does not end in / ends in nothing but the
\* redirect to the URI with / appended and issues no upstream call; the
\* request that follows that redirect is a tree request that is not
\* canonicalization-redirected again.
C3_CanonicalizedOnce ==
    \A r \in Conns :
        LET rq == req[r] IN
        /\ (IsTree(rq) /\ ~endswith(rq.uri, S_slash))
              => (rq.pc = "done" /\ rq.outcome = Canonicalized(rq.uri) /\ rq.calls = <<>>)
        /\ FollowsCanonicalization(rq)
              => /\ IsTree(rq) /\ rq.uri = rq.prev[1].uri \o S_slash
                 /\ rq.outcome # Canonicalized(rq.uri)

\* a tree URI with a query and no final / was redirected without a call, and
\* the request that followed went on to the contents call
C3_Witness ==
    \E r \in Conns :
        LET rq == req[r] IN
        /\ FollowsCanonicalization(rq)
        /\ rq.prev[1].uri = U_tree \o <<"/", "d", "?", "x">>
        /\ rq.pc = "wait_contents" /\ Len(rq.calls) = 1

\* the blob route /gitlab/<user>/<repo>/blob/<ref>/<path> of a tree request
BlobRouteOf(rq) ==
    format_prefix \o S_gitlab \o rq.args[1] \o S_slash \o rq.args[2] \o S_blob_seg
    \o rq.args[3] \o S_slash \o rstrip(rq.args[4])

\* C4: a slash-terminated tree request whose contents fetch succeeds with a
\* value that is not a list ends in a redirect to the blob route of the same
\* user, repo, ref and path.
C4_FileRedirectsToBlob ==
    \A r \in Conns :
        LET rq == req[r] IN
        (/\ IsTree(rq) /\ endswith(rq.uri, S_slash)
         /\ rq.responses = <<Answer(200, "dict", "", FALSE)>>)
            => (rq.pc = "done" /\ rq.outcome = Redirect(BlobRouteOf(rq)))

\* C5: a request one of whose upstream calls was answered 404 has ended with
\* the 404 error page, in every handler; it has not ended in an unhandled fault.
C5_Upstream404Is404 ==
    \A r \in Conns :
        LET rq == req[r] IN
        (\E i \in DOMAIN rq.responses : rq.responses[i].status = 404)
            => (rq.pc = "done" /\ rq.outcome = Error(404))

\* a tree request and a blob request whose upstream calls were answered 404
\* both ended with the 404 page
C5_Witness ==
    \E r1, r2 \in Conns :
        /\ req[r1].handler = "GitLabTreeHandler" /\ req[r2].handler = "GitLabBlobHandler"
        /\ \A r \in {r1, r2} :
              /\ Len(req[r].calls) = 1
              /\ req[r].responses = <<Answer(404, "", "", FALSE)>>
              /\ req[r].outcome = Error(404)

\* the tree view of user/repo at reference master
TreeAtMaster(user, repo) ==
    format_prefix \o S_gitlab \o user \o S_slash \o repo \o S_tree_seg \o S_master
    \o S_slash

\* C11: a request handled by GitLabRepoHandler.get has ended, in a redirect to
\* <format_prefix>/gitlab/<user>/<repo>/tree/master/ for the user and repo of
\* its URI, and has issued no upstream call.
C11_RepoRedirectsToMaster ==
    \A r \in Conns :
        LET rq == req[r] IN
        (rq.handler = "GitLabRepoHandler" /\ rq.pc # "idle")
            => /\ rq.pc = "done"
               /\ rq.outcome = Redirect(TreeAtMaster(rq.args[1], rq.args[2]))
               /\ rq.calls = <<>> /\ rq.responses = <<>>

\* the repo requests of two different users and repos were both redirected
C11_Witness ==
    \E r1, r2 \in Conns :
        /\ req[r1].handler = "GitLabRepoHandler" /\ req[r1].args = << <<"u">>, <<"r">> >>
        /\ req[r1].outcome.kind = "redirect"
        /\ req[r2].handler = "GitLabRepoHandler" /\ req[r2].args = << <<"a">>, <<"b">> >>
        /\ req[r2].outcome.kind = "redirect"

\* the paths of the upstream repository that are directories
Directories == {<<"d">>, <<"f">>}

\* the tree route /gitlab/<user>/<repo>/tree/<ref>/<path> of a blob request
TreeRouteOf(rq) ==
    format_prefix \o S_gitlab \o rq.args[1] \o S_slash \o rq.args[2] \o S_tree_seg
    \o rq.args[3] \o S_slash \o rq.args[4]

\* C12: a request handled by GitLabBlobHandler.get whose path is a directory
\* ends in a redirect to the tree route of the same user, repo, ref and path;
\* it is neither served nor rendered.
C12_DirectoryRedirectsToTree ==
    \A r \in Conns :
        LET rq == req[r] IN
        (/\ rq.handler = "GitLabBlobHandler" /\ rq.pc = "done"
         /\ rq.args[4] \in Directories)
            => /\ rq.outcome.kind = "redirect"
               /\ startswith(rq.outcome.location, TreeRouteOf(rq))

\* the contents call of the request was answered with a JSON list
ContentsIsList(rq) ==
    /\ IsTree(rq) /\ endswith(rq.uri, S_slash)
    /\ rq.responses # <<>> /\ rq.responses[1] = Answer(200, "list", "", FALSE)

\* C13: a slash-terminated tree request whose contents fetch returned a list,
\* and none of whose upstream calls failed, does not end in an error or an
\* unhandled fault: when it has ended, the tree template was rendered.
C13_ListingRendered ==
    \A r \in Conns :
        LET rq == req[r] IN
        (/\ ContentsIsList(rq)
         /\ \A i \in DOMAIN rq.responses : rq.responses[i].status = 200)
            => /\ rq.outcome.kind \notin {"error", "fault"}
               /\ rq.pc = "done" => rq.outcome = Render("treelist.html")

\* the contents fetch, the branch-list fetch and the tag-list fetch of the
\* request have all been answered successfully
AllFetchesSucceeded(rq) ==
    /\ Len(rq.calls) = 3 /\ Len(rq.responses) = 3
    /\ \A i \in DOMAIN rq.responses : rq.responses[i].status = 200

C15_FailureHaltsPipeline ==
    \A r \in Conns :
        LET rq == req[r] IN
        \A i \in DOMAIN rq.responses :
            rq.responses[i].status # 200
                => /\ i = Len(rq.responses) /\ Len(rq.calls) = i
                   /\ rq.pc = "done"
                   /\ rq.outcome = catch_client_error(rq.responses[i])
                   /\ rq.outcome.kind = "error"

\* a user request and a tree request whose upstream calls failed with 500
\* both ended with that error after their single call
C15_Witness ==
    \E r1, r2 \in Conns :
        /\ req[r1].handler = "GitLabUserHandler" /\ req[r2].handler = "GitLabTreeHandler"
        /\ \A r \in {r1, r2} :
              /\ Len(req[r].calls) = 1
              /\ req[r].responses = <<Answer(500, "", "", FALSE)>>
              /\ req[r].pc = "done" /\ req[r].outcome = Error(500)

\* C16: a call of get_tree_entry does not raise synchronously: it hands a
\* pending result back to its caller.
C16_ReturnsPendingResult ==
    last.method = "get_tree_entry" => last.result.kind = "future"

\* the internal route /gitlab/<user>/<repo>/<tree|blob>/<ref> of this service
InternalPrefix(user, repo, kindseg, ref) ==
    S_gitlab \o user \o S_slash \o repo \o kindseg \o ref

\* C17: the navigation URLs of the tree handler lie under this service's
\* routes for the request's user, repo and ref: the URL of every directory
\* entry under /gitlab/<user>/<repo>/tree/<ref>/, of every notebook entry
\* under /gitlab/<user>/<repo>/blob/<ref>/, the URL of a reference under the
\* tree route of the reference's name, and the breadcrumb base URL.
C17_NavigationUrlsInternal ==
    cl_done =>
        /\ \A i \in DOMAIN entries :
              /\ entries[i].class = "fa-folder-open" =>
                    startswith(entries[i].url,
                               InternalPrefix(CUser, CRepo, S_tree_seg, CRef) \o S_slash)
              /\ entries[i].class = "fa-book" =>
                    startswith(entries[i].url,
                               InternalPrefix(CUser, CRepo, S_blob_seg, CRef) \o S_slash)
        /\ startswith(base_url(CUser, CRepo, CRef),
                      InternalPrefix(CUser, CRepo, S_tree_seg, CRef))
        /\ startswith(nav_ref_url(CUser, CRepo, <<"b">>, <<"d">>),
                      InternalPrefix(CUser, CRepo, S_tree_seg, <<"b">>) \o S_slash)

\* the file call of the request was answered with base64 content whose bytes
\* are not UTF-8 text
Undecodable(rq) ==
    rq.responses = <<Answer(200, "dict", "base64", FALSE)>>

\* C18: a blob request for a path ending in .ipynb whose fetched content
\* cannot be decoded as UTF-8 has terminated with the 400 (Bad Request) error;
\* finish_notebook was not invoked for it.
C18_UndecodableIs400 ==
    \A r \in Conns :
        LET rq == req[r] IN
        (/\ rq.handler = "GitLabBlobHandler" /\ endswith(rq.args[4], S_ipynb)
         /\ Undecodable(rq))
            => /\ rq.pc = "done" /\ rq.outcome = Error(400)
               /\ rq.outcome # Render("notebook")

\* a notebook request with undecodable content ended with 400, and one with
\* decodable content was rendered
C18_Witness ==
    \E r1, r2 \in Conns :
        /\ req[r1].handler = "GitLabBlobHandler" /\ endswith(req[r1].args[4], S_ipynb)
        /\ Undecodable(req[r1]) /\ req[r1].outcome = Error(400)
        /\ req[r2].handler = "GitLabBlobHandler" /\ endswith(req[r2].args[4], S_ipynb)
        /\ req[r2].responses = <<Answer(200, "dict", "base64", TRUE)>>
        /\ req[r2].outcome = Render("notebook")

\* the upstream call the request's own URI determines: the client method of
\* its handler on the groups of its route and the page of its own query
OwnCall(rq) ==
    LET page == get_argument(QueryOf(rq.uri), S_page)
        sort == "sort" :> S_desc
    IN
    CASE rq.handler = "GitLabUserHandler" ->
            get_projects(rq.args[1],
                         IF page # PyNone /\ page # <<>> THEN ("page" :> page) @@ sort
                         ELSE sort)
      [] rq.handler = "GitLabTreeHandler" ->
            get_contents(rq.args[1], rq.args[2], rstrip(rq.args[4]), rq.args[3], EmptyDict)
      [] rq.handler = "GitLabBlobHandler" ->
            get_file(rq.args[1], rq.args[2], rq.args[4], rq.args[3], EmptyDict)
      [] OTHER -> Raised("")

\* two requests were given the same input: the same URI and the same upstream
\* answers
SameInput(a, b) ==
    a.pc # "idle" /\ b.pc # "idle" /\ a.uri = b.uri /\ a.responses = b.responses

\* the requests in flight depend on their own input alone
Isolated ==
    /\ \A r \in Conns :
          \A i \in DOMAIN req[r].calls : req[r].calls[i] = OwnCall(req[r]).request
    /\ \A r1, r2 \in Conns :
          SameInput(req[r1], req[r2])
              => /\ req[r1].calls = req[r2].calls
                 /\ req[r1].pc = req[r2].pc
                 /\ req[r1].outcome = req[r2].outcome

\* C19: under every interleaving of the requests in flight, the query
\* parameters of a request's upstream calls are those of its own URI, and its
\* calls, position and outcome are determined by its own URI and the answers to
\* its own calls, whatever the other requests do; no step of any request
\* changes the configured base URL or token.
C19_RequestsIsolated ==
    /\ []Isolated
    /\ [][gitlab_url' = gitlab_url /\ token' = token]_vars

\* two user requests are suspended at their upstream calls at the same time,
\* one with the page of its query, the other without a page
C19_Witness ==
    \E r1, r2 \in Conns :
        /\ req[r1].pc = "wait_projects" /\ req[r2].pc = "wait_projects"
        /\ "page" \in DOMAIN req[r1].calls[1].query
        /\ "page" \notin DOMAIN req[r2].calls[1].query

\* the request has ended in something that is not a redirect: a render, a
\* served file, an error, or a URL outside the /gitlab/ routes
Settled(rq) == rq.pc = "done" /\ rq.outcome.kind # "redirect"

\* a redirect leads to another URI than the request's own and than the one
\* before it, and is at most the second of its chain
NoRedirectCycle ==
    \A r \in Conns :
        LET rq == req[r] IN
        (rq.pc = "done" /\ rq.outcome.kind = "redirect")
            => /\ rq.outcome.location # rq.uri
               /\ rq.prev # <<>> => rq.outcome.location # rq.prev[1].uri
               /\ rq.hops < 2

\* C20: following the redirects among the /gitlab/ routes terminates: no
\* chain of redirects holds a cycle or more than two redirects, and every
\* request that has arrived leads to a request that ends in a non-redirect
\* outcome.
C20_RedirectsTerminate ==
    /\ []NoRedirectCycle
    /\ \A r \in Conns : (req[r].pc # "idle") ~> Settled(req[r])

\* the longest chain: /gitlab/u/r was redirected to /gitlab/u/r/, that to the
\* tree view at master, and the tree request went on to its contents call
C20_Witness ==
    \E r \in Conns :
        LET rq == req[r] IN
        /\ rq.hops = 2 /\ rq.handler = "GitLabTreeHandler"
        /\ rq.prev[1].handler = "GitLabRepoHandler"
        /\ rq.prev[1].uri = U_repo \o S_slash
        /\ rq.pc = "done" /\ rq.outcome.kind # "redirect"

=============================================================================
